---- MODULE Spec2Model ----
(***************************************************************************)
(* A model of the 15-bit virtual machine of src/src/vm.rs: the State       *)
(* struct (program image, instruction pointer, registers, stack buffer,    *)
(* RAM, the two pipes), its operations init_with, reset, done and next,    *)
(* and the 22 instruction functions next() dispatches to.                  *)
(***************************************************************************)
EXTENDS Integers, Sequences, FiniteSets, TLC

(***************************************************************************)
(* Program constants (vm.rs:25-33).                                        *)
(***************************************************************************)
REGISTER_COUNT == 8
WORD_BITS == 15
\* the sizes of the u16 and u8 domains
U16 == 2 ^ 16
U8 == 2 ^ 8
\* !(1 << WORD_BITS) on a u16
ADDRESS_SPACE == (U16 - 1) - 2 ^ WORD_BITS
\* 1 << WORD_BITS + 1 parses as 1 << (WORD_BITS + 1)
RAM_SIZE == 2 ^ (WORD_BITS + 1)
REGISTER_SPACE == ADDRESS_SPACE + REGISTER_COUNT
REGISTER_1 == ADDRESS_SPACE + 1
INVALID_START == ADDRESS_SPACE + REGISTER_COUNT + 1
MIN_STACK_SIZE == 256

(***************************************************************************)
(* Bounds of the model.                                                    *)
(***************************************************************************)
\* bytes a pipe holds before a write blocks (a property of the OS, not of vm.rs)
PipeCap == 4
\* the largest number of pushes a counting loop of the input programs asks for
MaxPush == 1030

(***************************************************************************)
(* The state.  Both arrays are stored without their zero tails:           *)
(*   stack  the boxed slice, as [len, cells]: len is its length and cells  *)
(*          its slots from slot 0 to the last slot that is not 0 (SlotAt); *)
(*   ram    the byte offsets written so far with their bytes, every other  *)
(*          offset of the RAM_SIZE array holding 0 (RamAt).                *)
(* stdout and stdin are the bytes in flight in the two pipes, the *_open   *)
(* flags tell whether the far end (stdout_reader, stdin_writer) is still   *)
(* there.  err is "none" until next() panics, then the panic's kind.       *)
(***************************************************************************)
VARIABLES bin, program_ptr, registers, stack, ram,
          stdout, stdin, stdout_open, stdin_open, err

vars == <<bin, program_ptr, registers, stack, ram,
          stdout, stdin, stdout_open, stdin_open, err>>

machine == <<program_ptr, registers, stack, ram>>
channels == <<stdout, stdin, stdout_open, stdin_open>>

Min(a, b) == IF a < b THEN a ELSE b

(***************************************************************************)
(* u16 arithmetic.                                                         *)
(***************************************************************************)
\* a << 1 on a u16: the top bit is shifted out
Shl1(a) == (a * 2) % U16
\* a >> 1
Shr1(a) == a \div 2
\* a.saturating_mul(b): the product held at the largest u16
saturating_mul(a, b) == Min(a * b, U16 - 1)
\* a.wrapping_mul(b)
wrapping_mul(a, b) == (a * b) % U16

RECURSIVE BitAnd(_, _, _)
BitAnd(a, b, n) ==
    IF n = 0 THEN 0
    ELSE (IF a % 2 = 1 /\ b % 2 = 1 THEN 1 ELSE 0)
         + 2 * BitAnd(a \div 2, b \div 2, n - 1)

RECURSIVE BitOr(_, _, _)
BitOr(a, b, n) ==
    IF n = 0 THEN 0
    ELSE (IF a % 2 = 1 \/ b % 2 = 1 THEN 1 ELSE 0)
         + 2 * BitOr(a \div 2, b \div 2, n - 1)

\* !a on a u16
BitNot(a) == (U16 - 1) - a

(***************************************************************************)
(* RAM and the three operand readers (vm.rs:410-438).                      *)
(***************************************************************************)
RamAt(r, i) == IF i \in DOMAIN r THEN r[i] ELSE 0

\* u16::from_le_bytes([ram[ptr], ram[ptr + 1]])
from_le_bytes(r, ptr) == RamAt(r, ptr) + U8 * RamAt(r, ptr + 1)

Ok(v) == [ok |-> TRUE, val |-> v, err |-> "none"]
Err(e) == [ok |-> FALSE, val |-> 0, err |-> e]

\* read_uint15 with the last register taken for an invalid operand
read_uint15_short_range(ptr, m) ==
    LET uint15 == from_le_bytes(m.ram, ptr) IN
    IF uint15 <= ADDRESS_SPACE THEN Ok(uint15)
    ELSE IF uint15 < REGISTER_SPACE THEN Ok(m.registers[uint15 - REGISTER_1])
    ELSE Err("InvalidUint15")

read_uint15(ptr, m) ==
    LET uint15 == from_le_bytes(m.ram, ptr) IN
    IF uint15 <= ADDRESS_SPACE THEN Ok(uint15)
    ELSE IF uint15 <= REGISTER_SPACE THEN Ok(m.registers[uint15 - REGISTER_1])
    ELSE Err("InvalidUint15")

read_register(ptr, m) ==
    LET uint15 == from_le_bytes(m.ram, ptr) IN
    IF uint15 <= ADDRESS_SPACE THEN Err("InvalidRegister")
    ELSE IF uint15 <= REGISTER_SPACE THEN Ok(uint15 - REGISTER_1)
    ELSE Err("InvalidUint15")

\* read_uint15_address with the shift to byte units left out
read_uint15_address_unshifted(ptr, m) ==
    LET uint15 == from_le_bytes(m.ram, ptr) IN
    IF uint15 <= ADDRESS_SPACE THEN Ok(uint15)
    ELSE IF uint15 <= REGISTER_SPACE THEN Ok(m.registers[uint15 - REGISTER_1])
    ELSE Err("InvalidAddress")

read_uint15_address(ptr, m) ==
    LET uint15 == from_le_bytes(m.ram, ptr) IN
    IF uint15 <= ADDRESS_SPACE THEN Ok(Shl1(uint15))
    ELSE IF uint15 <= REGISTER_SPACE
         THEN Ok(Shl1(m.registers[uint15 - REGISTER_1]))
    ELSE Err("InvalidAddress")

(***************************************************************************)
(* The stack buffer (vm.rs:158-186).                                       *)
(***************************************************************************)
\* slot i of the slice, i counted from 0 as in the code
SlotAt(s, i) == IF i < Len(s.cells) THEN s.cells[i + 1] ELSE 0

\* the cells without their zero tail
RECURSIVE TrimmedLen(_, _)
TrimmedLen(c, n) == IF n = 0 \/ c[n] # 0 THEN n ELSE TrimmedLen(c, n - 1)

Trim(c) ==
    IF c = <<>> \/ c[Len(c)] # 0 THEN c ELSE SubSeq(c, 1, TrimmedLen(c, Len(c)))

\* slot i of the slice set to v (i < s.len)
WithSlot(s, i, v) ==
    [s EXCEPT !.cells =
        IF i < Len(@) THEN Trim([@ EXCEPT ![i + 1] = v])
        ELSE IF v = 0 THEN @
        ELSE IF i = Len(@) THEN Append(@, v)
        ELSE @ \o [j \in 1..(i - Len(@)) |-> 0] \o <<v>>]

\* a zeroed slice of the given length (vm.rs:176-186)
boxed_slice(size) == [len |-> size, cells |-> <<>>]

\* resize_boxed_slice with the copy left out: the new slice stays zeroed
resize_boxed_slice_no_copy(new_size, to_resize) == boxed_slice(new_size)

\* vm.rs:167-174: a zeroed slice whose first min(new_size, len) slots are copied
resize_boxed_slice(new_size, to_resize) ==
    LET bytes_to_copy == Min(new_size, to_resize.len) IN
    [len |-> new_size,
     cells |-> Trim(SubSeq(to_resize.cells, 1,
                           Min(bytes_to_copy, Len(to_resize.cells))))]

\* vm.rs:158-160
expand_stack(s) == resize_boxed_slice(s.len * 2, s)

\* vm.rs:162-164
shrink_stack(s) == resize_boxed_slice(s.len \div 2, s)

\* the resize check at the head of next() (vm.rs:110-118)
resize_check(s) ==
    LET stack_ptr == SlotAt(s, 0) IN
    IF stack_ptr = (s.len - 2) \div 2 THEN expand_stack(s)
    ELSE IF stack_ptr <= (s.len - 2) \div 4 /\ stack_ptr > MIN_STACK_SIZE
         THEN shrink_stack(s)
    ELSE s

(***************************************************************************)
(* The result of an instruction: the memory and pipes as it leaves them    *)
(* and either the new pointer (Ok) or the error it returns, which next()   *)
(* turns into a panic.  A panic inside the instruction (an index out of    *)
(* bounds, a zero divisor) is a result with its own kind.                  *)
(***************************************************************************)
Done(new_pointer, m) == [err |-> "none", ptr |-> new_pointer, m |-> m]
Fail(e, m) == [err |-> e, ptr |-> 0, m |-> m]

\* vm.rs:200-202
op_halt(m) == Done(REGISTER_1, m)

\* vm.rs:206-211
op_set(ptr, m) ==
    LET register == read_register(ptr + 2, m)
        value == read_uint15(ptr + 4, m) IN
    IF ~register.ok THEN Fail(register.err, m)
    ELSE IF ~value.ok THEN Fail(value.err, m)
    ELSE Done(ptr + 6, [m EXCEPT !.registers[register.val] = value.val])

\* stack[*stack_ptr] = v; *stack_ptr += 1, on the split [stack_ptr, stack @ ..]:
\* the data slice has Len - 1 slots and indexing past it panics; the increment of
\* a stack pointer of 65535 overflows
stack_push(v, m) ==
    LET stack_ptr == SlotAt(m.stack, 0) IN
    IF stack_ptr >= m.stack.len - 1 THEN Fail("IndexOutOfBounds", m)
    ELSE IF stack_ptr + 1 >= U16
         THEN Fail("Overflow",
                   [m EXCEPT !.stack = WithSlot(@, stack_ptr + 1, v)])
    ELSE Done(0, [m EXCEPT !.stack = WithSlot(WithSlot(@, stack_ptr + 1, v),
                                              0, stack_ptr + 1)])

\* vm.rs:215-226
op_push(ptr, m) ==
    LET a == read_uint15(ptr + 2, m) IN
    IF ~a.ok THEN Fail(a.err, m)
    ELSE LET p == stack_push(a.val, m) IN
         IF p.err # "none" THEN p ELSE Done(ptr + 4, p.m)

\* vm.rs:230-250
op_pop(ptr, m) ==
    LET register == read_register(ptr + 2, m)
        stack_ptr == SlotAt(m.stack, 0) IN
    IF ~register.ok THEN Fail(register.err, m)
    ELSE IF stack_ptr = 0 THEN Fail("EmptyStack", m)
    ELSE IF stack_ptr - 1 >= m.stack.len - 1
         THEN Fail("IndexOutOfBounds",
                   [m EXCEPT !.stack = WithSlot(@, 0, stack_ptr - 1)])
    ELSE Done(ptr + 4,
              [m EXCEPT !.stack = WithSlot(@, 0, stack_ptr - 1),
                        !.registers[register.val] = SlotAt(m.stack, stack_ptr)])

Bool(b) == IF b THEN 1 ELSE 0

\* vm.rs:254-262
op_eq(ptr, m) ==
    LET register == read_register(ptr + 2, m)
        a == read_uint15(ptr + 4, m)
        b == read_uint15(ptr + 6, m) IN
    IF ~register.ok THEN Fail(register.err, m)
    ELSE IF ~a.ok THEN Fail(a.err, m)
    ELSE IF ~b.ok THEN Fail(b.err, m)
    ELSE Done(ptr + 8,
              [m EXCEPT !.registers[register.val] = Bool(a.val = b.val)])

\* vm.rs:266-274
op_gt(ptr, m) ==
    LET register == read_register(ptr + 2, m)
        a == read_uint15(ptr + 4, m)
        b == read_uint15(ptr + 6, m) IN
    IF ~register.ok THEN Fail(register.err, m)
    ELSE IF ~a.ok THEN Fail(a.err, m)
    ELSE IF ~b.ok THEN Fail(b.err, m)
    ELSE Done(ptr + 8,
              [m EXCEPT !.registers[register.val] = Bool(a.val > b.val)])

\* vm.rs:278-280
op_jmp(ptr, m) ==
    LET addr == read_uint15_address(ptr + 2, m) IN
    IF ~addr.ok THEN Fail(addr.err, m) ELSE Done(addr.val, m)

\* vm.rs:284-291
op_jt(ptr, m) ==
    LET a == read_uint15(ptr + 2, m)
        addr == read_uint15_address(ptr + 4, m) IN
    IF ~a.ok THEN Fail(a.err, m)
    ELSE IF a.val # 0
         THEN (IF ~addr.ok THEN Fail(addr.err, m) ELSE Done(addr.val, m))
    ELSE Done(ptr + 6, m)

\* vm.rs:295-302
op_jf(ptr, m) ==
    LET a == read_uint15(ptr + 2, m)
        addr == read_uint15_address(ptr + 4, m) IN
    IF ~a.ok THEN Fail(a.err, m)
    ELSE IF a.val = 0
         THEN (IF ~addr.ok THEN Fail(addr.err, m) ELSE Done(addr.val, m))
    ELSE Done(ptr + 6, m)

\* operator_operation! (vm.rs:304-320), with one and with two value operands
operator_operation1(ptr, m, exp(_)) ==
    LET register == read_register(ptr + 2, m)
        a == read_uint15(ptr + 4, m) IN
    IF ~register.ok THEN Fail(register.err, m)
    ELSE IF ~a.ok THEN Fail(a.err, m)
    ELSE Done(ptr + 6, [m EXCEPT !.registers[register.val] = exp(a.val)])

operator_operation2(ptr, m, panics(_, _), exp(_, _)) ==
    LET register == read_register(ptr + 2, m)
        a == read_uint15(ptr + 4, m)
        b == read_uint15(ptr + 6, m) IN
    IF ~register.ok THEN Fail(register.err, m)
    ELSE IF ~a.ok THEN Fail(a.err, m)
    ELSE IF ~b.ok THEN Fail(b.err, m)
    ELSE IF panics(a.val, b.val) # "none" THEN Fail(panics(a.val, b.val), m)
    ELSE Done(ptr + 8, [m EXCEPT !.registers[register.val] = exp(a.val, b.val)])

no_panic(a, b) == "none"

\* a + b on u16 operands: a sum past 65535 is an overflow
add_panics(a, b) == IF a + b >= U16 THEN "Overflow" ELSE "none"
\* a % b panics on a zero divisor
mod_panics(a, b) == IF b = 0 THEN "DivideByZero" ELSE "none"

\* the expressions of vm.rs:323-328
\* add with the reduction left out
add_exp_unreduced(a, b) == a + b
add_exp(a, b) == (a + b) % REGISTER_1
\* mult reduced modulo ADDRESS_SPACE instead of REGISTER_1
mult_exp_wrong_modulus(a, b) == wrapping_mul(a, b) % ADDRESS_SPACE
mult_exp(a, b) == wrapping_mul(a, b) % REGISTER_1
mod_exp(a, b) == a % b
and_exp(a, b) == BitAnd(a, b, 16)
or_exp(a, b) == BitOr(a, b, 16)
\* not with the mask left out: the 16-bit complement
not_exp_unmasked(a) == BitNot(a)
not_exp(a) == BitAnd(BitNot(a), ADDRESS_SPACE, 16)

op_add(ptr, m) == operator_operation2(ptr, m, add_panics, add_exp)
op_mult(ptr, m) == operator_operation2(ptr, m, no_panic, mult_exp)
\* mod that takes the remainder by 0 to be 0 instead of panicking
mod_exp_total(a, b) == IF b = 0 THEN 0 ELSE a % b
op_mod_zero_gives_zero(ptr, m) ==
    operator_operation2(ptr, m, no_panic, mod_exp_total)
op_mod(ptr, m) == operator_operation2(ptr, m, mod_panics, mod_exp)
op_and(ptr, m) == operator_operation2(ptr, m, no_panic, and_exp)
op_or(ptr, m) == operator_operation2(ptr, m, no_panic, or_exp)
op_not(ptr, m) == operator_operation1(ptr, m, not_exp)

\* vm.rs:333-341
op_rmem(ptr, m) ==
    LET register == read_register(ptr + 2, m)
        addr == read_uint15_address(ptr + 4, m)
        value == read_uint15(addr.val, m) IN
    IF ~register.ok THEN Fail(register.err, m)
    ELSE IF ~addr.ok THEN Fail(addr.err, m)
    ELSE IF ~value.ok THEN Fail(value.err, m)
    ELSE Done(ptr + 6, [m EXCEPT !.registers[register.val] = value.val])

\* ram[addr] = byte; the array holds RAM_SIZE bytes
ram_write(r, addr, byte) ==
    [i \in DOMAIN r \cup {addr} |-> IF i = addr THEN byte ELSE r[i]]

\* wmem storing the low byte only
op_wmem_low_byte_only(ptr, m) ==
    LET addr == read_uint15_address(ptr + 2, m)
        value == read_uint15(ptr + 4, m) IN
    IF ~addr.ok THEN Fail(addr.err, m)
    ELSE IF ~value.ok THEN Fail(value.err, m)
    ELSE Done(ptr + 6, [m EXCEPT !.ram = ram_write(@, addr.val, value.val % U8)])

\* vm.rs:345-353
op_wmem(ptr, m) ==
    LET addr == read_uint15_address(ptr + 2, m)
        value == read_uint15(ptr + 4, m)
        byte1 == value.val % U8
        byte2 == value.val \div U8 IN
    IF ~addr.ok THEN Fail(addr.err, m)
    ELSE IF ~value.ok THEN Fail(value.err, m)
    ELSE Done(ptr + 6,
              [m EXCEPT !.ram = ram_write(ram_write(@, addr.val, byte1),
                                          addr.val + 1, byte2)])

\* vm.rs:357-367: the return address is pushed before the target is read
op_call(ptr, m) ==
    LET p == stack_push(Shr1(ptr) + 2, m)
        addr == read_uint15_address(ptr + 2, p.m) IN
    IF p.err # "none" THEN p
    ELSE IF ~addr.ok THEN Fail(addr.err, p.m)
    ELSE Done(addr.val, p.m)

\* op_ret treating the empty stack as op_pop does
op_ret_empty_fails(m) ==
    LET stack_ptr == SlotAt(m.stack, 0) IN
    IF stack_ptr = 0 THEN Fail("EmptyStack", m)
    ELSE Done(Shl1(SlotAt(m.stack, stack_ptr)),
              [m EXCEPT !.stack = WithSlot(@, 0, stack_ptr - 1)])

\* vm.rs:371-384
op_ret(m) ==
    LET stack_ptr == SlotAt(m.stack, 0) IN
    IF stack_ptr = 0 THEN Done(REGISTER_1, m)
    ELSE IF stack_ptr - 1 >= m.stack.len - 1
         THEN Fail("IndexOutOfBounds",
                   [m EXCEPT !.stack = WithSlot(@, 0, stack_ptr - 1)])
    ELSE Done(Shl1(SlotAt(m.stack, stack_ptr)),
              [m EXCEPT !.stack = WithSlot(@, 0, stack_ptr - 1)])

\* vm.rs:406-408
op_noop(ptr, m) == Done(ptr + 2, m)

(***************************************************************************)
(* The two I/O instructions.  io is the pipe's state [bytes, open]; the    *)
(* result carries the pipe as the instruction leaves it, and "blocked"     *)
(* when the system call does not return.                                   *)
(***************************************************************************)
IoDone(r, io) == [err |-> r.err, ptr |-> r.ptr, m |-> r.m, io |-> io]
Blocked(m, io) == [err |-> "blocked", ptr |-> 0, m |-> m, io |-> io]

\* op_out on a pipe that drops the byte when it is full instead of waiting
op_out_drops_when_full(ptr, m, io) ==
    LET value == read_uint15(ptr + 2, m)
        char == value.val % U8 IN
    IF ~value.ok THEN IoDone(Fail(value.err, m), io)
    ELSE IF ~io.open THEN IoDone(Fail("IOError", m), io)
    ELSE IF Len(io.bytes) >= PipeCap THEN IoDone(Done(ptr + 4, m), io)
    ELSE IoDone(Done(ptr + 4, m), [io EXCEPT !.bytes = Append(@, char)])

\* vm.rs:388-392: write(2) on a pipe fails with EPIPE when the read end is
\* closed, blocks while the pipe is full, and else takes the byte
op_out(ptr, m, io) ==
    LET value == read_uint15(ptr + 2, m)
        char == value.val % U8 IN
    IF ~value.ok THEN IoDone(Fail(value.err, m), io)
    ELSE IF ~io.open THEN IoDone(Fail("IOError", m), io)
    ELSE IF Len(io.bytes) >= PipeCap THEN Blocked(m, io)
    ELSE IoDone(Done(ptr + 4, m), [io EXCEPT !.bytes = Append(@, char)])

\* vm.rs:396-404: read(2) on a pipe returns a byte when there is one, returns
\* Ok(0) and leaves buf at [0] when the pipe is empty and the write end is
\* closed, and else blocks; the register operand is decoded after the read
op_in(ptr, m, io) ==
    LET empty == io.bytes = <<>>
        buf0 == IF empty THEN 0 ELSE Head(io.bytes)
        io2 == IF empty THEN io ELSE [io EXCEPT !.bytes = Tail(@)]
        register == read_register(ptr + 2, m) IN
    IF empty /\ io.open THEN Blocked(m, io)
    ELSE IF ~register.ok THEN IoDone(Fail(register.err, m), io2)
    ELSE IoDone(Done(ptr + 4, [m EXCEPT !.registers[register.val] = buf0]), io2)

(***************************************************************************)
(* State::next (vm.rs:105-156) up to the match on the result: the resize   *)
(* check, the fetch of the opcode byte and the dispatch.  o and i are the  *)
(* two pipes.                                                              *)
(***************************************************************************)
Full(r, o, i) == [err |-> r.err, ptr |-> r.ptr, m |-> r.m, o |-> o, i |-> i]

dispatch(ptr, m, o, i) ==
    LET opcode == RamAt(m.ram, ptr) IN
    CASE opcode = 0 -> Full(op_halt(m), o, i)
      [] opcode = 1 -> Full(op_set(ptr, m), o, i)
      [] opcode = 2 -> Full(op_push(ptr, m), o, i)
      [] opcode = 3 -> Full(op_pop(ptr, m), o, i)
      [] opcode = 4 -> Full(op_eq(ptr, m), o, i)
      [] opcode = 5 -> Full(op_gt(ptr, m), o, i)
      [] opcode = 6 -> Full(op_jmp(ptr, m), o, i)
      [] opcode = 7 -> Full(op_jt(ptr, m), o, i)
      [] opcode = 8 -> Full(op_jf(ptr, m), o, i)
      [] opcode = 9 -> Full(op_add(ptr, m), o, i)
      [] opcode = 10 -> Full(op_mult(ptr, m), o, i)
      [] opcode = 11 -> Full(op_mod(ptr, m), o, i)
      [] opcode = 12 -> Full(op_and(ptr, m), o, i)
      [] opcode = 13 -> Full(op_or(ptr, m), o, i)
      [] opcode = 14 -> Full(op_not(ptr, m), o, i)
      [] opcode = 15 -> Full(op_rmem(ptr, m), o, i)
      [] opcode = 16 -> Full(op_wmem(ptr, m), o, i)
      [] opcode = 17 -> Full(op_call(ptr, m), o, i)
      [] opcode = 18 -> Full(op_ret(m), o, i)
      [] opcode = 19 -> LET r == op_out(ptr, m, o) IN Full(r, r.io, i)
      [] opcode = 20 -> LET r == op_in(ptr, m, i) IN Full(r, o, r.io)
      [] opcode = 21 -> Full(op_noop(ptr, m), o, i)
      [] OTHER -> Full(Fail("InvalidInstruction", m), o, i)

\* the pattern written as the inclusive range 0..=REGISTER_1
in_range_inclusive(ptr) == 0 <= ptr /\ ptr <= REGISTER_1

\* the pattern 0..REGISTER_1 of the let-else at vm.rs:106: an exclusive range
in_range(ptr) == 0 <= ptr /\ ptr < REGISTER_1

\* what one call of next() computes from the current state
next_result ==
    dispatch(program_ptr,
             [registers |-> registers, stack |-> resize_check(stack), ram |-> ram],
             [bytes |-> stdout, open |-> stdout_open],
             [bytes |-> stdin, open |-> stdin_open])

\* State::done (vm.rs:101-103)
done == program_ptr = REGISTER_1

\* State::next (vm.rs:105-156).  A panic ends the thread that owns the State.
next ==
    /\ err = "none"
    /\ IF ~in_range(program_ptr)
       THEN UNCHANGED vars
       ELSE LET r == next_result IN
            /\ r.err # "blocked"
            /\ program_ptr' = (IF r.err = "none" THEN r.ptr ELSE program_ptr)
            /\ registers' = r.m.registers
            /\ stack' = r.m.stack
            /\ ram' = r.m.ram
            /\ stdout' = r.o.bytes
            /\ stdin' = r.i.bytes
            /\ err' = r.err
            /\ UNCHANGED <<bin, stdout_open, stdin_open>>

\* the loop run over 0..bin.len() only: RAM past the image keeps its bytes
reseed_image_only(b) ==
    [i \in DOMAIN ram \cup 0..(Len(b) - 1) |->
        IF i < Len(b) THEN b[i + 1] ELSE ram[i]]

\* ram[i] = *bin.get(i).unwrap_or(&0) for every i (vm.rs:94-96)
reseed(b) == [i \in 0..(Min(Len(b), RAM_SIZE) - 1) |-> b[i + 1]]

\* State::reset (vm.rs:85-99)
reset ==
    /\ err = "none"
    /\ program_ptr' = 0
    /\ registers' = [i \in 0..(REGISTER_COUNT - 1) |-> 0]
    /\ stack' = boxed_slice(MIN_STACK_SIZE)
    /\ ram' = reseed(bin)
    /\ UNCHANGED <<bin, channels, err>>

(***************************************************************************)
(* The program images the model runs.  A program is written as a sequence  *)
(* of 16-bit words and stored as little-endian byte pairs.                 *)
(***************************************************************************)
R(k) == REGISTER_1 + k

to_le_bytes(ws) ==
    [i \in 1..(2 * Len(ws)) |->
        IF i % 2 = 1 THEN ws[(i + 1) \div 2] % U8 ELSE ws[i \div 2] \div U8]

Noops(n) == [i \in 1..n |-> 21]

\* push 1, 2, .. limit with a counting loop of 4 + pad instructions, then pop
\* them all into register 2 with a loop of 3 instructions, then halt
CountingLoop(limit, pad) ==
       <<9, R(0), R(0), 1>>
    \o <<2, R(0)>>
    \o Noops(pad)
    \o <<4, R(1), R(0), limit>>
    \o <<8, R(1), 0>>
    \o <<3, R(2)>>
    \o <<9, R(0), R(0), 32767>>
    \o <<7, R(0), 13 + pad>>
    \o <<0>>

PushCounts == {3, 130, 520, MaxPush}
Pads == {0, 1}

\* push from, from + 1, .. from + n - 1 with n push instructions in a row
Pushes(from, n) ==
    [i \in 1..(2 * n) |-> IF i % 2 = 1 THEN 2 ELSE from + (i \div 2) - 1]

\* pop into registers 0, 1, .. n - 1 with n pop instructions in a row
Pops(n) ==
    [i \in 1..(2 * n) |-> IF i % 2 = 1 THEN 3 ELSE R((i \div 2) - 1)]

\* k pushes in a row and a jump back to them, for ever
PushLoop(k) == Pushes(1, k) \o <<6, 0>>

StackPrograms ==
    {CountingLoop(n, p) : n \in PushCounts, p \in Pads}
    \cup {PushLoop(k) : k \in {1, 7}}
    \cup {Pushes(11, n) \o Pops(n) \o <<0>> : n \in 1..REGISTER_COUNT}

\* operand values for the arithmetic instructions, with the products that pass
\* 2^15 and 2^16 among them
ArithValues == {0, 1, 2, 181, 182, 255, 256, 257, 16384, 32766, 32767}

ArithPrograms ==
    {<<1, R(2), b, 9, R(0), R(2), c, 10, R(1), b, c, 0>> :
        b \in ArithValues, c \in ArithValues}

\* raw operands on both sides of each boundary of the three operand ranges
RawOperands == {0, 1, 32766, 32767, 32768, 32769, 32774, 32775, 32776, 32777,
                65535}

OperandPrograms ==
    {<<1, R(0), 77, 1, R(1), 1234, 1, R(6), 4321, 1, R(7), 99,
       1, R(3), raw, 2, raw, 0>> : raw \in RawOperands}

SmallPrograms == {
    <<3, R(0)>>,                                  \* pop on the fresh machine
    <<18>>,                                       \* ret on the fresh machine
    <<0>>,                                        \* halt
    <<2, 7, 3, R(0), 3, R(1)>>,                   \* push, pop, pop
    <<2, 7, 3, R(0), 18>>,                        \* push, pop, ret
    <<17, 3, 0, 18, 3, R(4)>>,                    \* call, ret, pop
    <<17, 3, 0, 1, R(0), 5, 18>>,                 \* call, set, ret, halt
    <<6, 16384>>,                                 \* jmp to word 16384
    <<6, 16385>>,                                 \* jmp to word 16385
    <<6, 32767>>,                                 \* jmp to the last word
    <<1, R(0), 1, 7, R(0), 16384>>,               \* jt to word 16384
    <<8, R(0), 16384>>,                           \* jf to word 16384
    <<8, R(0), 16386>>,                           \* jf to word 16386
    <<17, 16384>>,                                \* call word 16384
    <<2, 16384, 18>>,                             \* push 16384, ret
    <<2, 16390, 18>>,                             \* push 16390, ret
    <<16, 16383, 21, 6, 16383>>,                  \* noop in the last word below
    <<16, 16381, 1, 16, 16382, R(0), 6, 16381>>,  \* set across word 16384
    <<16, 16384, 21, 6, 16384>>,                  \* noop in word 16384
    <<6, 2, 22>>,                                 \* an opcode byte that is none
    <<22>>,
    <<1, 5, 5>>,                                  \* set with a literal target
    <<17, 32776>>,                                \* call with an invalid target
    <<11, R(0), 5, 0>>,                           \* mod by zero
    <<11, R(0), 17, 5, 12, R(1), 12, 10, 13, R(2), 12, 10, 14, R(3), 0, 0>>,
    <<5, R(0), 2, 1, 4, R(1), 2, 2, 21, 0>>,
    <<16, 100, 77, 15, R(0), 100, 0>>,            \* wmem then rmem
    <<16, 0, 21, 6, 0>>,                          \* wmem over the program
    <<19, 65, 19, 66, 0>>,                        \* out, out, halt
    <<16, 4, 66, 19, 65, 0>>,                     \* wmem over the operand of out
    <<20, R(0), 19, R(0), 0>>                     \* in, out, halt
}

\* programs whose one output byte is read from state they change afterwards:
\* register 0, the RAM word 100, the stack (the value ret would jump to)
ProbePrograms == {
    <<19, R(0), 1, R(0), 65, 0>>,                 \* out r0; set r0, 65; halt
    <<15, R(0), 100, 19, R(0), 16, 100, 65, 0>>   \* rmem; out; wmem 100, 65; halt
}

\* not r, v; not r, r; halt
NotValues == {0, 1, 255, 256, 16383, 16384, 21845, 32766, 32767}
NotRegisters == {0, 7}

NotPrograms ==
    {<<14, R(r), v, 14, R(r), R(r), 0>> : r \in NotRegisters, v \in NotValues}

\* wmem addr, v; rmem r, addr; halt: addr among the words of the program
\* itself, in free RAM, and on both sides of byte offset 32768
MemAddrs == {0, 3, 4, 5, 6, 100, 16383, 16384, 32767}
MemValues == {0, 5, 15, 255, 256, 32767}

MemPrograms ==
    {<<16, addr, v, 15, R(r), addr, 0>> :
        addr \in MemAddrs, v \in MemValues, r \in NotRegisters}
    \cup {<<1, R(1), 300, 1, R(2), 12345, 16, R(1), R(2), 15, R(0), R(1), 0>>}

\* rmem of a word of the image: a register reference, an invalid operand, a
\* plain value
ImageWords == {7, 32767, 32768, 32769, 32775, 32776, 40000, 65535}

RmemPrograms ==
    {<<1, R(1), 5, 1, R(7), 9, 15, R(0), 11, 0, 0, w>> : w \in ImageWords}

\* noop; call 0: one call every second step, for ever
CallLoop == <<21, 17, 0>>

\* calls at both ends of the address space, each followed by a ret
CallPrograms == {
    CallLoop,
    <<17, 4, 0, 0, 1, R(0), 5, 18>>,              \* call 4; halt; set; ret
    <<16, 16382, 17, 16, 16383, 6, 16, 6, 18, 6, 16382>>,   \* call at byte 32764
    <<16, 16383, 17, 16, 16384, 6, 16, 6, 18, 6, 16383>>    \* call at byte 32766
}

\* set r0, 7; mod r0, b, c; halt, the divisor 0 given as a literal and as
\* the value of register 1
ModValues == {0, 1, 2, 5, 17, 32767}

ModPrograms ==
    {<<1, R(0), 7, 11, R(0), b, c, 0>> :
        b \in ModValues, c \in ModValues \cup {R(1)}}

Programs == StackPrograms \cup ArithPrograms \cup OperandPrograms
            \cup SmallPrograms \cup ProbePrograms
            \cup NotPrograms \cup MemPrograms \cup RmemPrograms
            \cup CallPrograms \cup ModPrograms

\* State::init_with (vm.rs:60-82): both pipes are new, empty and open
Init ==
    /\ bin \in {to_le_bytes(ws) : ws \in Programs}
    /\ program_ptr = 0
    /\ registers = [i \in 0..(REGISTER_COUNT - 1) |-> 0]
    /\ stack = boxed_slice(MIN_STACK_SIZE)
    /\ ram = [i \in 0..(Len(bin) - 1) |-> bin[i + 1]]
    /\ stdout = <<>>
    /\ stdin = <<>>
    /\ stdout_open = TRUE
    /\ stdin_open = TRUE
    /\ err = "none"

Next == next \/ reset

Spec == Init /\ [][Next]_vars

(***************************************************************************)
(* The machine with the far ends of its two pipes: the (stdout_reader,     *)
(* stdin_writer) pair init_with hands to its caller (vm.rs:67-68, 80).     *)
(* The reader takes bytes from the output pipe, the writer puts bytes into *)
(* the input pipe, and either end may be dropped, which closes it.         *)
(***************************************************************************)
\* out six times; in then out; out of a value past 255; an echo loop; in with
\* a literal operand
OutProgram == <<19, 65, 19, 66, 19, 67, 19, 68, 19, 69, 19, 70, 0>>

IoPrograms == {
    OutProgram,
    <<1, R(0), 7, 20, R(0), 19, R(0), 0>>,
    <<19, 321, 0>>,
    <<20, R(0), 19, R(0), 6, 0>>,
    <<20, 5, 0>>,
    <<19, 32776, 0>>,
    <<21, 1, R(0), 66, 0>>
}

\* the bytes the writer sends
InBytes == {10, 65}

\* stdin_writer.write(&[b]): a full pipe makes the writer wait
stdin_write ==
    /\ stdin_open
    /\ Len(stdin) < PipeCap
    /\ \E b \in InBytes : stdin' = Append(stdin, b)
    /\ UNCHANGED <<bin, machine, stdout, stdout_open, stdin_open, err>>

\* stdout_reader.read(): the reader takes the oldest byte in flight
stdout_read ==
    /\ stdout_open
    /\ stdout # <<>>
    /\ stdout' = Tail(stdout)
    /\ UNCHANGED <<bin, machine, stdin, stdout_open, stdin_open, err>>

\* drop(stdin_writer): bytes in flight stay readable
stdin_close ==
    /\ stdin_open
    /\ stdin_open' = FALSE
    /\ UNCHANGED <<bin, machine, stdout, stdin, stdout_open, err>>

\* drop(stdout_reader)
stdout_close ==
    /\ stdout_open
    /\ stdout_open' = FALSE
    /\ UNCHANGED <<bin, machine, stdout, stdin, stdin_open, err>>

InitIO ==
    /\ bin \in {to_le_bytes(ws) : ws \in IoPrograms}
    /\ program_ptr = 0
    /\ registers = [i \in 0..(REGISTER_COUNT - 1) |-> 0]
    /\ stack = boxed_slice(MIN_STACK_SIZE)
    /\ ram = [i \in 0..(Len(bin) - 1) |-> bin[i + 1]]
    /\ stdout = <<>>
    /\ stdin = <<>>
    /\ stdout_open = TRUE
    /\ stdin_open = TRUE
    /\ err = "none"

NextIO == next \/ stdin_write \/ stdout_read \/ stdin_close \/ stdout_close

SpecIO == InitIO /\ [][NextIO]_vars

(***************************************************************************)
(* The claims.                                                             *)
(***************************************************************************)
\* the memory, the opcode byte and the mode of the current state
mem == [registers |-> registers, stack |-> stack, ram |-> ram]
opcode_here == RamAt(ram, program_ptr)
running == err = "none" /\ in_range(program_ptr)
operand(k) == read_uint15(program_ptr + 2 * k, mem)
target(k) == read_register(program_ptr + 2 * k, mem)

\* C1: push and pop are LIFO from every reachable state: a push whose operand
\* resolves completes, raises the stack pointer by one and leaves its value in
\* the top slot; a pop with a register operand on a non-empty stack delivers
\* the value of the top slot and lowers the stack pointer by one, the slots
\* below staying as they are (so N pushes followed by N pops return the values
\* in reverse order and the stack pointer to where it was).
C1_PushPopLifo ==
    [][(running /\ next) =>
        /\ (opcode_here = 2 /\ operand(1).ok) =>
              /\ err' = "none"
              /\ SlotAt(stack', 0) = SlotAt(stack, 0) + 1
              /\ SlotAt(stack', SlotAt(stack', 0)) = operand(1).val
              /\ \A i \in 1..SlotAt(stack, 0) : SlotAt(stack', i) = SlotAt(stack, i)
        /\ (opcode_here = 3 /\ target(1).ok /\ SlotAt(stack, 0) > 0) =>
              /\ err' = "none"
              /\ SlotAt(stack', 0) = SlotAt(stack, 0) - 1
              /\ registers'[target(1).val] = SlotAt(stack, SlotAt(stack, 0))
              /\ \A i \in 1..SlotAt(stack', 0) : SlotAt(stack', i) = SlotAt(stack, i)]_vars

\* C2: resizing is transparent: the expand_stack or shrink_stack that next()
\* performs on a reachable state leaves slot 0 and every live slot
\* 1..stack pointer as they are, inside the new buffer.
C2_ResizeTransparent ==
    LET s == resize_check(stack) IN
    /\ s.len > SlotAt(stack, 0)
    /\ Len(s.cells) <= s.len
    /\ \A i \in 0..SlotAt(stack, 0) : SlotAt(s, i) = SlotAt(stack, i)

\* C2 witness: a buffer of 2048 slots about to be halved with 511 values on
\* it, after the loop that pushes 1, 2, 3, ..
C2_Witness ==
    /\ running
    /\ stack.len = 2048
    /\ resize_check(stack).len = 1024
    /\ SlotAt(stack, 0) = 511
    /\ \A i \in 1..511 : SlotAt(stack, i) = i

\* C3: the stack pointer is at most the buffer length - 1, and when push or
\* call is dispatched (after the resize check) the data slot at the stack
\* pointer exists.
C3_PushHasFreeSlot ==
    /\ SlotAt(stack, 0) <= stack.len - 1
    /\ (running /\ opcode_here \in {2, 17}) =>
          LET s == resize_check(stack) IN SlotAt(s, 0) + 1 <= s.len - 1

\* C4: with stack pointer 0, pop with a register operand fails with EmptyStack
\* and writes no register; ret does not fail and sets the pointer to the halt
\* sentinel, so that done() is true.
C4_PopFailsRetHalts ==
    [][(running /\ SlotAt(stack, 0) = 0 /\ next) =>
        /\ (opcode_here = 3 /\ target(1).ok) =>
              /\ err' = "EmptyStack"
              /\ registers' = registers
              /\ program_ptr' = program_ptr
        /\ (opcode_here = 18) =>
              /\ err' = "none"
              /\ program_ptr' = 32768
              /\ done']_vars

\* C4 witness: the second pop of push, pop, pop has failed on the stack the
\* first one emptied
C4_Witness ==
    /\ err = "EmptyStack"
    /\ program_ptr = 8
    /\ SlotAt(stack, 0) = 0
    /\ registers[0] = 7
    /\ registers[1] = 0

\* C5: reset() after any executed instructions yields the state of a freshly
\* constructed machine: pointer 0, 8 registers of 0, a zeroed stack buffer of
\* 256 slots, RAM equal to the program image followed by zeros; so a run
\* after a reset writes what the first run wrote: the programs that send a
\* byte of their state (0 on a fresh machine) and then change that state send
\* 0 in every run.
C5_ResetIsFresh ==
    /\ [][reset =>
            /\ program_ptr' = 0
            /\ DOMAIN registers' = 0..7
            /\ \A i \in 0..7 : registers'[i] = 0
            /\ stack'.len = 256
            /\ \A i \in 0..255 : SlotAt(stack', i) = 0
            /\ \A i \in DOMAIN ram \cup DOMAIN ram' \cup 0..Len(bin) :
                  RamAt(ram', i) = (IF i < Len(bin) THEN bin[i + 1] ELSE 0)]_vars
    /\ [](bin \in {to_le_bytes(ws) : ws \in ProbePrograms} =>
             \A i \in 1..Len(stdout) : stdout[i] = 0)

\* C5 witness: the program that sends RAM word 100 and then writes 65 to it
\* has run to halt, been reset and run to halt again, and has sent 0 twice
C5_Witness ==
    /\ done
    /\ bin = to_le_bytes(<<15, R(0), 100, 19, R(0), 16, 100, 65, 0>>)
    /\ stdout = <<0, 0>>
    /\ from_le_bytes(ram, 200) = 65

\* C6: the engine is in one of two states: while it has not failed, either
\* next() executes the instruction at the pointer or done() is true.
C6_RunningOrHalted == err = "none" => (in_range(program_ptr) \/ done)

\* C7: HALTED is absorbing: from a state in which done() is true, a step that
\* is not a reset leaves the pointer, the registers, RAM, the stack and both
\* channels as they are, and done() stays true.
C7_HaltedAbsorbing ==
    [][done => (reset \/ (UNCHANGED <<machine, channels>> /\ done'))]_vars

\* C7 witness: a halted machine whose RAM holds a noop at the byte offset the
\* pointer has
C7_Witness ==
    /\ done
    /\ err = "none"
    /\ RamAt(ram, program_ptr) = 21

\* C8: the pointer takes the value done() tests for only by halt or by ret on
\* an empty stack.
C8_SentinelOnlyByHaltOrRet ==
    [][(running /\ next /\ done') =>
          \/ opcode_here = 0
          \/ (opcode_here = 18 /\ SlotAt(stack, 0) = 0)]_vars

\* C9: read_uint15 on the operands of the current instruction: a raw operand
\* 0..32767 resolves to itself, 32768..32775 to the value of register
\* raw - 32768, and 32776..65535 fails with the invalid-value error.
C9_OperandClassification ==
    running =>
        \A k \in 1..3 :
            LET raw == from_le_bytes(ram, program_ptr + 2 * k)
                got == operand(k) IN
            /\ raw \in 0..32767 => (got.ok /\ got.val = raw)
            /\ raw \in 32768..32775 => (got.ok /\ got.val = registers[raw - 32768])
            /\ raw \in 32776..65535 => (~got.ok /\ got.err = "InvalidUint15")

\* C9 witness: set r3, <32775> has stored the 99 held by register 7
C9_Witness ==
    /\ running
    /\ program_ptr = 30
    /\ from_le_bytes(ram, 28) = 32775
    /\ registers[7] = 99
    /\ registers[3] = 99

\* C10: add stores (b + c) mod 32768 and mult stores (b * c) mod 32768, the
\* product taken in the integers, so the stored value is in 0..32767.
C10_AddMultWrap ==
    [][(running /\ next /\ opcode_here \in {9, 10}
        /\ target(1).ok /\ operand(2).ok /\ operand(3).ok) =>
          LET b == operand(2).val
              c == operand(3).val
              a == registers'[target(1).val] IN
          /\ err' = "none"
          /\ a \in 0..32767
          /\ opcode_here = 9 => a = (b + c) % 32768
          /\ opcode_here = 10 => a = (b * c) % 32768]_vars

\* C10 witness: add r0, 32767, 32767 and mult r1, 32767, 32767 have stored
\* 32766 and 1
C10_Witness ==
    /\ program_ptr = 22
    /\ from_le_bytes(ram, 18) = 32767
    /\ from_le_bytes(ram, 20) = 32767
    /\ registers[0] = 32766
    /\ registers[1] = 1

\* word k of RAM and of the program image
word(k) == from_le_bytes(ram, 2 * k)
binword(k) ==
    IF 2 * k + 2 <= Len(bin) THEN bin[2 * k + 1] + U8 * bin[2 * k + 2] ELSE 0
\* the memory after the step
mem_next == [registers |-> registers', stack |-> stack', ram |-> ram']

\* C11: for a program that starts with not r, v; not r, r (v in 0..32767):
\* after the first instruction register r holds the 15-bit complement
\* 32767 - v, and after the second it holds v again.
C11_NotInvolution ==
    LET v == word(2)
        r == word(1) - 32768 IN
    (/\ err = "none"
     /\ RamAt(ram, 0) = 14 /\ RamAt(ram, 6) = 14
     /\ word(1) \in 32768..32775 /\ word(4) = word(1) /\ word(5) = word(1)
     /\ v \in 0..32767) =>
        /\ program_ptr = 6 => registers[r] = 32767 - v
        /\ program_ptr = 12 => registers[r] = v

\* C11 witness: not r7, 21845; not r7, r7 has run and register 7 holds 21845
C11_Witness ==
    /\ err = "none"
    /\ program_ptr = 12
    /\ bin = to_le_bytes(<<14, R(7), 21845, 14, R(7), R(7), 0>>)
    /\ registers[7] = 21845

\* C12: memory round trip.  A wmem addr, v that completes and is followed at
\* the new pointer by an rmem r, addr of the same address leaves the machine
\* in a state from which that rmem sets register r to v; and the programs
\* wmem addr, v; rmem r, addr have r = v once both instructions have run
\* (the rmem being, when it runs, still the rmem r, addr of the image).
C12_MemoryRoundTrip ==
    /\ [][(/\ running /\ next /\ opcode_here = 16
           /\ read_uint15_address(program_ptr + 2, mem).ok /\ operand(2).ok
           /\ err' = "none"
           /\ RamAt(ram', program_ptr') = 15
           /\ read_register(program_ptr' + 2, mem_next).ok
           /\ read_uint15_address(program_ptr' + 4, mem_next)
                = read_uint15_address(program_ptr + 2, mem)) =>
             LET r == read_register(program_ptr' + 2, mem_next).val
                 got == op_rmem(program_ptr', mem_next) IN
             /\ got.err = "none"
             /\ got.m.registers[r] = operand(2).val]_vars
    /\ [](LET addr == binword(1)
              v == binword(2) IN
          (/\ err = "none" /\ program_ptr = 12
           /\ binword(0) = 16 /\ addr \in 0..32767 /\ v \in 0..32767
           /\ word(3) = 15 /\ word(4) \in 32768..32775 /\ word(5) = addr) =>
             registers[word(4) - 32768] = v)

\* C12 witness: wmem 16384, 32767; rmem r7, 16384 has run: the word at byte
\* offset 32768 and register 7 hold 32767
C12_Witness ==
    /\ err = "none"
    /\ program_ptr = 12
    /\ bin = to_le_bytes(<<16, 16384, 32767, 15, R(7), 16384, 0>>)
    /\ from_le_bytes(ram, 32768) = 32767
    /\ registers[7] = 32767

\* C13: a closed channel is a fatal I/O condition: in on an input pipe that is
\* empty and whose writer is gone, and out on an output pipe whose reader is
\* gone, end the run with the I/O error, write no register and leave the
\* pointer where it is.
C13_ClosedChannelIsFatal ==
    [][(running /\ next) =>
        /\ (opcode_here = 20 /\ target(1).ok /\ stdin = <<>> /\ ~stdin_open) =>
              /\ err' = "IOError"
              /\ registers' = registers
              /\ program_ptr' = program_ptr
        /\ (opcode_here = 19 /\ operand(1).ok /\ ~stdout_open) =>
              /\ err' = "IOError"
              /\ registers' = registers
              /\ program_ptr' = program_ptr]_vars

\* C14: shrink policy: a step that starts with the stack pointer at most a
\* quarter of the usable capacity ((length - 2) / 4) and with a buffer longer
\* than the floor of 256 slots halves the buffer.
C14_ShrinkPolicy ==
    [][(/\ running /\ next
        /\ SlotAt(stack, 0) <= (stack.len - 2) \div 4
        /\ stack.len > 256) =>
          stack'.len = stack.len \div 2]_vars

\* C15: grow policy: a step that starts with the stack pointer equal to
\* (length - 2) / 2 leaves a buffer of exactly twice the length, and at no
\* resize check is the stack pointer past that threshold.
C15_GrowPolicy ==
    /\ [][(running /\ next /\ SlotAt(stack, 0) = (stack.len - 2) \div 2) =>
            stack'.len = 2 * stack.len]_vars
    /\ [](running => SlotAt(stack, 0) <= (stack.len - 2) \div 2)

\* C16: the instruction pointer is even in every reachable state, whatever
\* produced it: the sequential advance, a jmp, jt, jf or call target, a ret
\* from any stack value, halt.
C16_PointerEven == program_ptr % 2 = 0

\* C16 witness: push 16390; ret has popped 16390 and left the pointer at
\* 2 * 16390, outside the pointers next() executes
C16_Witness ==
    /\ err = "none"
    /\ bin = to_le_bytes(<<2, 16390, 18>>)
    /\ SlotAt(stack, 0) = 0
    /\ SlotAt(stack, 1) = 16390
    /\ program_ptr = 32780

\* the bytes OutProgram sends, in order, and the number of its out
\* instructions that have completed in the current state
OutBytes == <<65, 66, 67, 68, 69, 70>>
outs_done == IF done THEN Len(OutBytes) ELSE program_ptr \div 4

\* C17: the output stream.  An out that completes appends the low byte of its
\* value to the bytes in flight and advances the pointer by 4, and it
\* completes only when the channel has room; an out that fails, every other
\* instruction and the writer of the input channel leave the output channel
\* as it is; the reader takes the oldest byte.  So for the program of six
\* outs the bytes in flight are at every moment the last of the bytes sent so
\* far, in order: the reader has taken exactly the bytes before them.
C17_OutputStream ==
    /\ [][/\ (running /\ next /\ opcode_here = 19 /\ operand(1).ok) =>
                \/ /\ err' = "none"
                   /\ Len(stdout) < PipeCap
                   /\ stdout' = Append(stdout, operand(1).val % 256)
                   /\ program_ptr' = program_ptr + 4
                \/ /\ err' = "IOError"
                   /\ ~stdout_open
                   /\ stdout' = stdout
                   /\ program_ptr' = program_ptr
          /\ (running /\ next /\ ~(opcode_here = 19 /\ operand(1).ok)) =>
                stdout' = stdout
          /\ (running /\ opcode_here = 19 /\ operand(1).ok /\ stdout_open
              /\ Len(stdout) >= PipeCap) =>
                program_ptr' = program_ptr
          /\ (stdin_write \/ stdin_close \/ stdout_close) => stdout' = stdout
          /\ stdout_read => stdout = <<Head(stdout)>> \o stdout']_vars
    /\ [](bin = to_le_bytes(OutProgram) =>
            /\ Len(stdout) <= outs_done
            /\ stdout = SubSeq(OutBytes, outs_done - Len(stdout) + 1, outs_done))

\* C17 witness: five outs have completed, the reader has taken the first
\* byte, the channel is full again and the engine waits at the sixth out
C17_Witness ==
    /\ err = "none"
    /\ bin = to_le_bytes(OutProgram)
    /\ program_ptr = 20
    /\ stdout_open
    /\ stdout = <<66, 67, 68, 69>>
    /\ Len(stdout) = PipeCap

\* C18: call and ret pair up.  A call fetched at byte pointer p whose target a
\* resolves pushes the word address p / 2 + 2 and leaves the pointer at
\* 2 * a; twice the pushed word is p + 4; a ret on a non-empty stack pops the
\* top entry and leaves the pointer at twice its value.
C18_CallRetPairing ==
    [][(running /\ next) =>
        /\ (opcode_here = 17 /\ read_uint15_address(program_ptr + 2, mem).ok) =>
              /\ err' = "none"
              /\ SlotAt(stack', 0) = SlotAt(stack, 0) + 1
              /\ SlotAt(stack', SlotAt(stack', 0)) = program_ptr \div 2 + 2
              /\ 2 * SlotAt(stack', SlotAt(stack', 0)) = program_ptr + 4
              /\ program_ptr' = 2 * operand(1).val
        /\ (opcode_here = 18 /\ SlotAt(stack, 0) > 0) =>
              /\ err' = "none"
              /\ SlotAt(stack', 0) = SlotAt(stack, 0) - 1
              /\ program_ptr' = 2 * SlotAt(stack, SlotAt(stack, 0))]_vars

\* C19: rmem a b sets register a to the 16-bit word stored at byte offset
\* 2 * (value b), whatever that word is.
C19_RmemReadsWord ==
    [][(/\ running /\ next /\ opcode_here = 15 /\ target(1).ok
        /\ read_uint15_address(program_ptr + 4, mem).ok) =>
          LET addr == read_uint15_address(program_ptr + 4, mem).val IN
          /\ err' = "none"
          /\ registers'[target(1).val] = from_le_bytes(ram, addr)]_vars

\* C20 as stated: some operands b, c in 0..32767 make the 16-bit wrapping
\* product reduced modulo 32768 differ from the product taken in 32 bits and
\* reduced modulo 32768 (the product of two such operands is below 2^30, so
\* the 32-bit product is the product in the integers): on the machine as it
\* is, mult r0, b, c stores something else than that for some b and c.
C20_MultDiffersFromWidened ==
    \E b \in 0..32767, c \in ArithValues :
        LET image == to_le_bytes(<<10, R(0), b, c>>)
            m == [mem EXCEPT !.ram = [i \in 0..(Len(image) - 1) |-> image[i + 1]]]
        IN  op_mult(0, m).m.registers[0] # (b * c) % 32768

\* C20, amended: the two computations agree: the product of the operands
\* fits 32 bits, and every mult step stores that product reduced modulo
\* 32768, which is also the product reduced modulo 65536 and then modulo
\* 32768, also when the 16-bit product has wrapped.
C20_MultEqualsWidened ==
    [][(running /\ next /\ opcode_here = 10
        /\ target(1).ok /\ operand(2).ok /\ operand(3).ok) =>
          LET b == operand(2).val
              c == operand(3).val IN
          /\ b * c < 2 ^ 30
          /\ registers'[target(1).val] = (b * c) % 32768
          /\ registers'[target(1).val] = ((b * c) % 65536) % 32768]_vars

\* C20 witness: mult r1, 256, 257 has stored 256: the product 65792 does not
\* fit 16 bits
C20_Witness ==
    /\ program_ptr = 22
    /\ opcode_here = 0
    /\ RamAt(ram, 14) = 10
    /\ from_le_bytes(ram, 18) = 256
    /\ from_le_bytes(ram, 20) = 257
    /\ 256 * 257 >= U16
    /\ registers[1] = 256

\* C21: the resize policy does not thrash: when a step has doubled (halved)
\* the buffer and left the stack pointer as it was, and the instruction that
\* runs next is none that moves the stack pointer, the resize check of that
\* next step does not halve (double) the buffer back.
C21_NoThrash ==
    [][(/\ running /\ next
        /\ err' = "none" /\ in_range(program_ptr')
        /\ SlotAt(stack', 0) = SlotAt(stack, 0)
        /\ RamAt(ram', program_ptr') \notin {2, 3, 17, 18}) =>
          /\ stack'.len = 2 * stack.len => resize_check(stack').len # stack.len
          /\ 2 * stack'.len = stack.len => resize_check(stack').len # stack.len]_vars

\* C22: the input stream.  An in with a register operand completes by taking
\* the oldest byte in flight and storing it (0..255) in its register,
\* advancing the pointer by 4; while the channel is empty and open no step
\* changes the pointer, the registers, RAM or the stack; every other
\* instruction leaves the channel as it is, and the writer adds at the end.
C22_InputStream ==
    [][/\ (running /\ next /\ opcode_here = 20 /\ target(1).ok) =>
              /\ err' = "none"
              /\ stdin # <<>>
              /\ stdin' = Tail(stdin)
              /\ registers'[target(1).val] = Head(stdin)
              /\ Head(stdin) \in 0..255
              /\ program_ptr' = program_ptr + 4
       /\ (running /\ opcode_here = 20 /\ stdin = <<>> /\ stdin_open) =>
              UNCHANGED machine
       /\ (running /\ next /\ opcode_here # 20) => stdin' = stdin
       /\ stdin_write => /\ Len(stdin') = Len(stdin) + 1
                         /\ SubSeq(stdin', 1, Len(stdin)) = stdin]_vars

\* C23: in every reachable state all 8 registers and all live stack slots
\* (1 .. stack pointer) hold values in 0..32767.
C23_WordsAre15Bit ==
    /\ DOMAIN registers = 0..7
    /\ \A i \in 0..7 : registers[i] \in 0..32767
    /\ \A i \in 1..Min(SlotAt(stack, 0), Len(stack.cells)) :
          SlotAt(stack, i) \in 0..32767

\* C23 witness: set r3, 32767; push 32767 has run: register 3 and the top of
\* the stack hold the largest word
C23_Witness ==
    /\ err = "none"
    /\ program_ptr = 34
    /\ registers[3] = 32767
    /\ SlotAt(stack, 0) = 1
    /\ SlotAt(stack, 1) = 32767

\* C24: a mod whose divisor has the value 0 aborts the run: no register is
\* written and the pointer stays; with a divisor c that is not 0 register a
\* receives b mod c, which is less than c, and the pointer advances by 8.
C24_ModByZeroAborts ==
    [][(running /\ next /\ opcode_here = 11
        /\ target(1).ok /\ operand(2).ok /\ operand(3).ok) =>
          LET b == operand(2).val
              c == operand(3).val IN
          /\ c = 0 => /\ err' # "none"
                      /\ registers' = registers
                      /\ program_ptr' = program_ptr
          /\ c # 0 => /\ err' = "none"
                      /\ registers'[target(1).val] = b % c
                      /\ registers'[target(1).val] < c
                      /\ program_ptr' = program_ptr + 8]_vars

\* C24 witness: set r0, 7; mod r0, 17, 0 has aborted at the mod with register
\* 0 still 7
C24_Witness ==
    /\ err = "DivideByZero"
    /\ program_ptr = 6
    /\ opcode_here = 11
    /\ from_le_bytes(ram, 10) = 17
    /\ from_le_bytes(ram, 12) = 0
    /\ registers[0] = 7

\* C25: a failing instruction is atomic: when a step ends with one of the
\* fatal errors (invalid value, invalid address, invalid register, empty
\* stack), the registers, RAM, the stack buffer as it was when the
\* instruction was dispatched (after the resize check) and the unread bytes
\* of the input channel are unchanged.
C25_FailureIsAtomic ==
    [][(/\ running /\ next
        /\ err' \in {"InvalidUint15", "InvalidAddress", "InvalidRegister",
                     "EmptyStack"}) =>
          /\ registers' = registers
          /\ ram' = ram
          /\ stack' = resize_check(stack)
          /\ stdin' = stdin]_vars
====
